---- MODULE Spec2Model ----
(***************************************************************************)
(* The retrieval-and-synthesis pipeline of src/app.py: identify_intents,   *)
(* generate_keywords_per_intent, query_for_multiple_intents (with          *)
(* query_pinecone and get_embedding), generate_multi_intent_answer and     *)
(* get_answer.                                                             *)
(*                                                                         *)
(* A text is a sequence of one-character strings.  The three services      *)
(* (completion, embedding, similarity query) are the environment: each     *)
(* outbound call either raises or returns a reply drawn from a bounded     *)
(* set.  One action is one outbound call together with the code that runs  *)
(* on its return, up to the next outbound call.                            *)
(*                                                                         *)
(* Spec        : one request through get_answer.                           *)
(* SpecStage   : one direct call of a single stage function with inputs    *)
(*               drawn from bounded sets, as a unit test would call it.    *)
(* SpecService : one request through get_answer with insert_metadata and   *)
(*               delete_metadata requests served beside it.                *)
(* SpecRuns    : two requests through get_answer, one after the other or   *)
(*               interleaved.                                              *)
(***************************************************************************)
EXTENDS Integers, Sequences, FiniteSets, TLC

----------------------------------------------------------------------------
(* Bounds of the model *)

\* longest completion text enumerated for a direct call of a stage
MaxLen == 3
\* longest match list a similarity query returns in the model
MaxMatches == 2
\* largest number of intents in an intent_keywords / intent_data input
MaxIntents == 2
\* number of ids that insert_metadata can draw
MaxInserts == 1

(* Program constants *)

\* top_k of both similarity queries (lines 936 and 978)
top_k == 5
\* max_context_tokens of generate_multi_intent_answer (line 998)
max_context_tokens == 4000

----------------------------------------------------------------------------
(* Texts *)

Chars == {"a", " ", ","}

Texts(n) == UNION {[1..k -> Chars] : k \in 0..n}

Rep(c, n) == [i \in 1..n |-> c]

Min(a, b) == IF a < b THEN a ELSE b

\* Python's s[:n]
Take(s, n) == SubSeq(s, 1, Min(n, Len(s)))

IsSpace(c) == c \in {" ", "\n"}

\* str.strip(): leading and trailing whitespace removed
strip(s) ==
    LET keep == {i \in DOMAIN s : ~IsSpace(s[i])}
        lo == CHOOSE i \in keep : \A j \in keep : i <= j
        hi == CHOOSE i \in keep : \A j \in keep : i >= j
    IN IF keep = {} THEN <<>> ELSE SubSeq(s, lo, hi)

\* str.split(sep) for a one-character separator: always at least one field
RECURSIVE split(_, _)
split(s, sep) ==
    IF \A i \in DOMAIN s : s[i] # sep THEN <<s>>
    ELSE LET p == CHOOSE i \in DOMAIN s :
                      s[i] = sep /\ \A j \in 1..(i - 1) : s[j] # sep
         IN <<SubSeq(s, 1, p - 1)>> \o split(SubSeq(s, p + 1, Len(s)), sep)

\* sep.join(parts)
RECURSIVE join(_, _)
join(sep, parts) ==
    IF parts = <<>> THEN <<>>
    ELSE IF Len(parts) = 1 THEN parts[1]
    ELSE parts[1] \o sep \o join(sep, Tail(parts))

----------------------------------------------------------------------------
(* Tokenizer: get_encoding("cl100k_base").  A byte-pair encoding whose     *)
(* vocabulary is every single character plus the merge of a space with     *)
(* the non-space character that follows it.  A token is the text it        *)
(* stands for; decode concatenates the tokens.                             *)

\* position i of s starts a token
TokenStart(s, i) == i = 1 \/ ~(s[i - 1] = " " /\ ~IsSpace(s[i]))

TokenAt(s, i) ==
    IF i < Len(s) /\ ~TokenStart(s, i + 1) THEN <<s[i], s[i + 1]>> ELSE <<s[i]>>

RECURSIVE EncodeRange(_, _, _)
EncodeRange(s, lo, hi) ==
    IF lo > hi THEN <<>>
    ELSE IF lo = hi
         THEN (IF TokenStart(s, lo) THEN <<TokenAt(s, lo)>> ELSE <<>>)
         ELSE LET mid == (lo + hi) \div 2
              IN EncodeRange(s, lo, mid) \o EncodeRange(s, mid + 1, hi)

\* tokenizer.encode(text)
encode(s) == EncodeRange(s, 1, Len(s))

RECURSIVE DecodeRange(_, _, _)
DecodeRange(t, lo, hi) ==
    IF lo > hi THEN <<>>
    ELSE IF lo = hi THEN t[lo]
    ELSE LET mid == (lo + hi) \div 2
         IN DecodeRange(t, lo, mid) \o DecodeRange(t, mid + 1, hi)

\* tokenizer.decode(tokens)
decode(t) == DecodeRange(t, 1, Len(t))

----------------------------------------------------------------------------
(* Dictionaries keep insertion order: a sequence of [key, val] entries     *)

HasKey(d, key) == \E i \in DOMAIN d : d[i].key = key

\* d[key] = val: a new key is appended, an existing key keeps its place
DictSet(d, key, val) ==
    IF HasKey(d, key)
    THEN [i \in DOMAIN d |-> IF d[i].key = key THEN [key |-> key, val |-> val] ELSE d[i]]
    ELSE Append(d, [key |-> key, val |-> val])

\* variant: the loop runs over the distinct elements of the list
loop_done_distinct(i, list) == i > Cardinality({list[n] : n \in DOMAIN list})

\* lines 961 and 977: the for loop over list, at position i, is past the end
loop_done(i, list) == i > Len(list)

\* mapping.get(field, default) on a record used as a dict
Get(r, field, default) == IF field \in DOMAIN r THEN r[field] ELSE default

HasMetadata(match) == "metadata" \in DOMAIN match

Ids(matches) == {matches[i].id : i \in DOMAIN matches}

\* the sequences without repetition of at most n elements of S
InjSeqs(S, n) ==
    UNION {{s \in [1..m -> S] : \A p, q \in 1..m : p # q => s[p] # s[q]} : m \in 0..n}

----------------------------------------------------------------------------
(* The two indexes.  A vector is identified by its id; the record kept     *)
(* with it may lack fields, or be absent altogether.                       *)

MetadataVectors ==
    { [id |-> "1", metadata |-> [title |-> "T1", tags |-> "g1", links |-> "L1"]],
      [id |-> "2", metadata |-> [tags |-> "g2"]],
      [id |-> "3"] }

ChunkA == [id |-> "d1#0", metadata |-> [chunk_text |-> <<"a">>, file_name |-> <<"f">>]]
ChunkB == [id |-> "d1#1", metadata |-> [chunk_text |-> <<"a", " ", "a">>]]
ChunkFile == [id |-> "d2#0", metadata |-> [file_name |-> <<"f">>]]
ChunkBare == [id |-> "d3#0", metadata |-> [source |-> <<"s">>]]
ChunkNoMetadata == [id |-> "d4#0"]

\* the answers of the content index that the model enumerates
ContentResponses ==
    { <<>>, <<ChunkA>>, <<ChunkA, ChunkB>>, <<ChunkFile, ChunkA>>,
      <<ChunkBare>>, <<ChunkNoMetadata>> }

\* index.query(vector, top_k): at most top_k vectors of the index, no vector twice
QueryResults(index, k) == InjSeqs(index, Min(k, MaxMatches))

----------------------------------------------------------------------------
(* Inputs *)

Queries == {<<"q">>}

Example == <<"a", ",", " ", "b", " ", ",", "c">>

\* completion texts of a request through get_answer
IntentReplies == {<<>>, <<" ">>, <<"a">>, <<" ", "a", " ">>}
KeywordReplies == {<<>>, <<"a">>, <<"a", ",", " ", "a">>, Example}
AnswerReplies == {<<>>, <<"a", " ">>}

\* completion texts of a direct call of identify_intents or
\* generate_keywords_per_intent
StageTexts == Texts(MaxLen) \cup {Example}

StageIntentLists ==
    {<<>>, << <<"a">> >>, << <<"a">>, <<"a", "a">> >>, << <<"a">>, <<"a">> >>}

StageIntent(i) == Rep("a", i)

StageKeywords(i) == IF i % 2 = 1 THEN << <<"a">>, <<"a", " ", "a">> >> ELSE << <<>> >>

\* the intent_keywords inputs of a direct call of query_for_multiple_intents
StageIntentKeywords ==
    {[i \in 1..n |-> [key |-> StageIntent(i), val |-> StageKeywords(i)]] : n \in 0..MaxIntents}

\* a content context that fills a one-intent context up to the budget exactly
LongA == Rep("a", max_context_tokens - 26)
\* a content context of a good half of the budget: words separated by spaces
LongB == [i \in 1..(max_context_tokens + 200) |-> IF i % 2 = 1 THEN "b" ELSE " "]

StageContexts == {<<>>, <<"a">>, LongA, LongB}

\* the metadata matches of the first intent of such an input
StageResults == {<<>>, <<[id |-> "1", metadata |-> [title |-> "T1", tags |-> "g1", links |-> "L1"]]>>}

\* the intent_data inputs of a direct call of generate_multi_intent_answer
StageIntentData ==
    UNION {{[i \in 1..n |->
                [key |-> StageIntent(i),
                 val |-> IF i = 1
                         THEN [metadata_results |-> r, pinecone_context |-> c[i],
                               related_documents |-> [m \in DOMAIN r |-> r[m].metadata.title],
                               related_links |-> [m \in DOMAIN r |-> r[m].metadata.links]]
                         ELSE [metadata_results |-> <<>>, pinecone_context |-> c[i],
                               related_documents |-> <<>>, related_links |-> <<>>]]]
            : c \in [1..n -> StageContexts], r \in StageResults} : n \in 0..MaxIntents}

----------------------------------------------------------------------------
(* State *)

VARIABLES
    entry,                  \* the function the caller invoked
    pc,                     \* the outbound call the run is about to issue
    exc,                    \* "none", or the exception that ended the run
    query,
    intents,                \* identify_intents: its return value
    intent_keywords,        \* generate_keywords_per_intent: the dict it builds
    k,                      \* generate_keywords_per_intent: position in intents
    j,                      \* query_for_multiple_intents: position in intent_keywords
    vector,                 \* the embedding the last get_embedding returned
    new_metadata_results,   \* query_for_multiple_intents, line 980
    all_metadata_results,   \* query_for_multiple_intents, line 976
    intent_data,            \* query_for_multiple_intents: the dict it builds
    context,                \* generate_multi_intent_answer, line 993
    truncated_context,      \* generate_multi_intent_answer, line 1000: the
                            \* Context part of the user message of the completion
    final_answer,
    result,                 \* what get_answer returned
    calls,                  \* the outbound calls issued so far, in order
    index_metadata,         \* the vectors of the metadata index
    index_content,          \* the vectors of the content index
    parked                  \* the locals of the other request's thread, if any

vars == <<entry, pc, exc, query, intents, intent_keywords, k, j, vector,
          new_metadata_results, all_metadata_results, intent_data, context,
          truncated_context, final_answer, result, calls, index_metadata,
          index_content, parked>>

Call(svc, stage, arg, ok, reply) ==
    [svc |-> svc, stage |-> stage, arg |-> arg, ok |-> ok, reply |-> reply]

NoResult == [response |-> <<>>, intent_data |-> <<>>]

\* no other request is being served
NoFrame == [pc |-> "none"]

\* variant: a run stores the vector of its query in the metadata index
ReadOnly_upsert ==
    /\ index_metadata' = index_metadata \cup {[id |-> "q"]}
    /\ UNCHANGED index_content

\* the pipeline calls index.query only (lines 938 and 978): no statement of it
\* writes to an index
ReadOnly == UNCHANGED <<index_metadata, index_content>>

APOLOGY == <<"<p>I'm sorry, I encountered an error while processing your query.</p>">>

----------------------------------------------------------------------------
(* get_answer: sequencing and the catch-all *)

\* variant: get_answer returns at once when there is nothing to retrieve
get_answer_next_short(stage) ==
    CASE stage = "identify_intents" -> "generate_keywords_per_intent"
      [] stage = "generate_keywords_per_intent" ->
             (IF intent_keywords = <<>> THEN "serialize" ELSE "query_for_multiple_intents")
      [] stage = "query_for_multiple_intents" -> "generate_multi_intent_answer"
      [] stage = "generate_multi_intent_answer" -> "serialize"

\* variant: the retrieval is called before the keyword expansion
get_answer_next_swapped(stage) ==
    CASE stage = "identify_intents" -> "query_for_multiple_intents"
      [] stage = "query_for_multiple_intents" -> "generate_keywords_per_intent"
      [] stage = "generate_keywords_per_intent" -> "generate_multi_intent_answer"
      [] stage = "generate_multi_intent_answer" -> "serialize"

\* variant: get_answer passes the intents on without expanding them
get_answer_next_skip(stage) ==
    CASE stage = "identify_intents" -> "query_for_multiple_intents"
      [] stage = "generate_keywords_per_intent" -> "query_for_multiple_intents"
      [] stage = "query_for_multiple_intents" -> "generate_multi_intent_answer"
      [] stage = "generate_multi_intent_answer" -> "serialize"

\* lines 1063-1069: the stage that follows a stage
get_answer_next(stage) ==
    CASE stage = "identify_intents" -> "generate_keywords_per_intent"
      [] stage = "generate_keywords_per_intent" -> "query_for_multiple_intents"
      [] stage = "query_for_multiple_intents" -> "generate_multi_intent_answer"
      [] stage = "generate_multi_intent_answer" -> "serialize"

\* where control goes when a stage function returns
Return(stage) == IF entry = "get_answer" THEN get_answer_next(stage) ELSE "returned"

\* variant: the failed statement is run again
ExceptPc_retry == pc

\* where control goes when an exception is raised: the except clause of
\* get_answer (line 1091), or out of a stage called directly
ExceptPc == IF entry = "get_answer" THEN "returned" ELSE "raised"

\* variant: the except clause returns what was retrieved so far
ExceptResult_partial(data) == [response |-> APOLOGY, intent_data |-> data]

\* line 1093: what the except clause returns; data is the intent_data so far
ExceptResult(data) == [response |-> APOLOGY, intent_data |-> <<>>]

Raise(e) ==
    /\ exc' = e
    /\ pc' = ExceptPc
    /\ result' = IF entry = "get_answer" THEN ExceptResult(intent_data) ELSE result

\* the completion service answers with any text of the set
Replies(stage) ==
    IF stage = "generate_multi_intent_answer" THEN AnswerReplies
    ELSE IF entry # "get_answer" THEN StageTexts
    ELSE IF stage = "identify_intents" THEN IntentReplies
    ELSE KeywordReplies

----------------------------------------------------------------------------
(* identify_intents, lines 947-957 *)

\* variant: the intent is returned even when it is empty
intents_of_always(intent) == <<intent>>

\* line 957
intents_of(intent) == IF intent # <<>> THEN <<intent>> ELSE <<>>

identify_intents ==
    /\ pc = "identify_intents"
    /\ \/ /\ calls' = Append(calls, Call("completion", "identify_intents", query, FALSE, <<>>))
          /\ Raise("service")
          /\ UNCHANGED intents
       \/ \E content \in Replies("identify_intents") :
          /\ calls' = Append(calls, Call("completion", "identify_intents", query, TRUE, content))
          /\ intents' = intents_of(strip(content))
          /\ pc' = Return("identify_intents")
          /\ UNCHANGED <<exc, result>>
    /\ ReadOnly
    /\ UNCHANGED <<entry, query, intent_keywords, k, j, vector,
                   new_metadata_results, all_metadata_results, intent_data,
                   context, truncated_context, final_answer, parked>>

----------------------------------------------------------------------------
(* generate_keywords_per_intent, lines 959-972 *)

\* variant: the empty fields are left out
keywords_of_nonempty(content) ==
    LET fields == split(strip(content), ",")
        NonEmpty(f) == strip(f) # <<>>
        kept == SelectSeq(fields, NonEmpty)
    IN [i \in DOMAIN kept |-> strip(kept[i])]

\* variant: the fields are not trimmed
keywords_of_untrimmed(content) == split(strip(content), ",")

\* lines 970-971
keywords_of(content) ==
    LET fields == split(strip(content), ",")
    IN [i \in DOMAIN fields |-> strip(fields[i])]

\* one turn of the loop: the completion call for intents[k]
generate_keywords_per_intent ==
    /\ pc = "generate_keywords_per_intent"
    /\ ~loop_done(k, intents)
    /\ \/ /\ calls' = Append(calls, Call("completion", "generate_keywords_per_intent",
                                         intents[k], FALSE, <<>>))
          /\ Raise("service")
          /\ UNCHANGED <<intent_keywords, k>>
       \/ \E content \in Replies("generate_keywords_per_intent") :
          /\ calls' = Append(calls, Call("completion", "generate_keywords_per_intent",
                                         intents[k], TRUE, content))
          /\ intent_keywords' = DictSet(intent_keywords, intents[k], keywords_of(content))
          /\ k' = k + 1
          /\ UNCHANGED <<pc, exc, result>>
    /\ ReadOnly
    /\ UNCHANGED <<entry, query, intents, j, vector, new_metadata_results,
                   all_metadata_results, intent_data, context,
                   truncated_context, final_answer, parked>>

\* line 972: the loop is over
generate_keywords_per_intent_return ==
    /\ pc = "generate_keywords_per_intent"
    /\ loop_done(k, intents)
    /\ pc' = Return("generate_keywords_per_intent")
    /\ ReadOnly
    /\ UNCHANGED <<entry, exc, query, intents, intent_keywords, k, j, vector,
                   new_metadata_results, all_metadata_results, intent_data,
                   context, truncated_context, final_answer, result, calls,
                   parked>>

----------------------------------------------------------------------------
(* query_for_multiple_intents, lines 974-990, and query_pinecone, 936-945 *)

\* variant: the first keyword is left out of the text
query_text_tail(keywords) == join(<<" ">>, Tail(keywords))

\* lines 978 and 983: the text that is embedded
query_text(keywords) == join(<<" ">>, keywords)

\* variant: the new matches are kept in the reverse of the index's order
new_results_reversed(matches, seen) ==
    LET IsNew(match) == match.id \notin Ids(seen)
        kept == SelectSeq(matches, IsNew)
    IN [i \in DOMAIN kept |-> kept[Len(kept) + 1 - i]]

\* variant: the filter of line 980 left out
new_results_unfiltered(matches, seen) == matches

\* variant: the filter of line 980 with "in" for "not in"
new_results_inverted(matches, seen) ==
    LET IsOld(match) == match.id \in Ids(seen)
    IN SelectSeq(matches, IsOld)

\* line 980: the matches whose id was not kept for an earlier intent
new_results(matches, seen) ==
    LET IsNew(match) == match.id \notin Ids(seen)
    IN SelectSeq(matches, IsNew)

\* variant: an empty match list raises as well (matches[0] of no match)
KeyError_on_empty(matches) ==
    matches = <<>> \/ \E i \in DOMAIN matches : ~HasMetadata(matches[i])

\* lines 941 and 987: match['metadata'] raises for a match that has no
\* metadata record
KeyError(matches) == \E i \in DOMAIN matches : ~HasMetadata(matches[i])

ContentFrom == <<"C", "o", "n", "t", "e", "n", "t", " ", "f", "r", "o", "m", " ">>

UnknownFile == <<"u", "n", "k", "n", "o", "w", "n", " ", "f", "i", "l", "e">>

\* variant: a match without chunk_text contributes nothing (no else branch)
contexts_of_text_only(matches) ==
    LET HasText(match) == "chunk_text" \in DOMAIN match.metadata
        kept == SelectSeq(matches, HasText)
    IN [i \in DOMAIN kept |-> kept[i].metadata.chunk_text]

\* lines 940-944: one text per match
contexts_of(matches) ==
    [i \in DOMAIN matches |->
        IF "chunk_text" \in DOMAIN matches[i].metadata
        THEN matches[i].metadata.chunk_text
        ELSE ContentFrom \o Get(matches[i].metadata, "file_name", UnknownFile)]

\* variant: only the matches that have a title or a link are listed
intent_entry_listed(results, pinecone_context) ==
    LET HasTitle(match) == "title" \in DOMAIN match.metadata
        HasLinks(match) == "links" \in DOMAIN match.metadata
        titled == SelectSeq(results, HasTitle)
        linked == SelectSeq(results, HasLinks)
    IN [metadata_results |-> results,
        pinecone_context |-> pinecone_context,
        related_documents |-> [i \in DOMAIN titled |-> titled[i].metadata.title],
        related_links |-> [i \in DOMAIN linked |-> linked[i].metadata.links]]

\* lines 984-989
intent_entry(results, pinecone_context) ==
    [metadata_results |-> results,
     pinecone_context |-> pinecone_context,
     related_documents |-> [i \in DOMAIN results |-> Get(results[i].metadata, "title", "")],
     related_links |-> [i \in DOMAIN results |-> Get(results[i].metadata, "links", "")]]

\* line 978, get_embedding(" ".join(keywords)) for the intent at position j
query_for_multiple_intents_embed ==
    /\ pc = "query_for_multiple_intents"
    /\ ~loop_done(j, intent_keywords)
    /\ LET text == query_text(intent_keywords[j].val)
       IN \/ /\ calls' = Append(calls, Call("embedding", "query_for_multiple_intents",
                                            text, FALSE, <<>>))
             /\ Raise("service")
             /\ UNCHANGED vector
          \/ /\ calls' = Append(calls, Call("embedding", "query_for_multiple_intents",
                                            text, TRUE, <<>>))
             /\ vector' = [of |-> text]
             /\ pc' = "index_metadata.query"
             /\ UNCHANGED <<exc, result>>
    /\ ReadOnly
    /\ UNCHANGED <<entry, query, intents, intent_keywords, k, j,
                   new_metadata_results, all_metadata_results, intent_data,
                   context, truncated_context, final_answer, parked>>

\* lines 978-981: index_metadata.query and the filter on its matches
query_for_multiple_intents_query ==
    /\ pc = "index_metadata.query"
    /\ \/ /\ calls' = Append(calls, Call("query", "index_metadata", vector.of, FALSE, <<>>))
          /\ Raise("service")
          /\ UNCHANGED <<new_metadata_results, all_metadata_results>>
       \/ \E matches \in QueryResults(index_metadata, top_k) :
          /\ calls' = Append(calls, Call("query", "index_metadata", vector.of, TRUE, matches))
          /\ new_metadata_results' = new_results(matches, all_metadata_results)
          /\ all_metadata_results' = all_metadata_results \o new_metadata_results'
          /\ pc' = "query_pinecone"
          /\ UNCHANGED <<exc, result>>
    /\ ReadOnly
    /\ UNCHANGED <<entry, query, intents, intent_keywords, k, j, vector,
                   intent_data, context, truncated_context, final_answer,
                   parked>>

\* line 983 into line 937: get_embedding(query) of query_pinecone
query_pinecone_embed ==
    /\ pc = "query_pinecone"
    /\ LET text == query_text(intent_keywords[j].val)
       IN \/ /\ calls' = Append(calls, Call("embedding", "query_pinecone", text, FALSE, <<>>))
             /\ Raise("service")
             /\ UNCHANGED vector
          \/ /\ calls' = Append(calls, Call("embedding", "query_pinecone", text, TRUE, <<>>))
             /\ vector' = [of |-> text]
             /\ pc' = "index_content.query"
             /\ UNCHANGED <<exc, result>>
    /\ ReadOnly
    /\ UNCHANGED <<entry, query, intents, intent_keywords, k, j,
                   new_metadata_results, all_metadata_results, intent_data,
                   context, truncated_context, final_answer, parked>>

\* lines 938-945 and 984-989: index.query of query_pinecone, the content
\* context, and the entry of the intent in intent_data
query_pinecone_query ==
    /\ pc = "index_content.query"
    /\ \/ /\ calls' = Append(calls, Call("query", "index_content", vector.of, FALSE, <<>>))
          /\ Raise("service")
          /\ UNCHANGED <<intent_data, j>>
       \/ \E matches \in {r \in ContentResponses : \A i \in DOMAIN r : r[i] \in index_content} :
          /\ calls' = Append(calls, Call("query", "index_content", vector.of, TRUE, matches))
          /\ IF KeyError(matches)
             THEN \* line 941: match['metadata'] of a match without one
                  Raise("metadata") /\ UNCHANGED <<intent_data, j>>
             ELSE IF KeyError(new_metadata_results)
             THEN \* line 987: result['metadata'] of a match without one
                  Raise("metadata") /\ UNCHANGED <<intent_data, j>>
             ELSE /\ intent_data' =
                        DictSet(intent_data, intent_keywords[j].key,
                                intent_entry(new_metadata_results,
                                             join(<<" ">>, contexts_of(matches))))
                  /\ j' = j + 1
                  /\ pc' = "query_for_multiple_intents"
                  /\ UNCHANGED <<exc, result>>
    /\ ReadOnly
    /\ UNCHANGED <<entry, query, intents, intent_keywords, k, vector,
                   new_metadata_results, all_metadata_results, context,
                   truncated_context, final_answer, parked>>

\* line 990: the loop is over
query_for_multiple_intents_return ==
    /\ pc = "query_for_multiple_intents"
    /\ loop_done(j, intent_keywords)
    /\ pc' = Return("query_for_multiple_intents")
    /\ ReadOnly
    /\ UNCHANGED <<entry, exc, query, intents, intent_keywords, k, j, vector,
                   new_metadata_results, all_metadata_results, intent_data,
                   context, truncated_context, final_answer, result, calls,
                   parked>>

----------------------------------------------------------------------------
(* generate_multi_intent_answer, lines 992-1020 *)

IntentLabel == <<"I", "n", "t", "e", "n", "t", ":", " ">>

PineconeLabel == <<"P", "i", "n", "e", "c", "o", "n", "e", " ",
                   "C", "o", "n", "t", "e", "x", "t", ":", " ">>

\* variant: the block lists the titles of the metadata matches of the intent
block_of_rendered(item) ==
    IntentLabel \o item.key \o <<"\n">> \o item.val.related_documents \o <<"\n">>
        \o PineconeLabel \o item.val.pinecone_context \o <<"\n">>

\* lines 994-995: the block of one intent
block_of(item) ==
    IntentLabel \o item.key \o <<"\n">> \o PineconeLabel \o item.val.pinecone_context
        \o <<"\n">>

\* lines 993-997
context_of(data) == join(<<"\n">>, [i \in DOMAIN data |-> block_of(data[i])])

\* variant: the slice one token too long
truncate_one_more(tokens) == Take(tokens, max_context_tokens + 1)

\* variant: the slice [-max_context_tokens:], which keeps the tail
truncate_tail(tokens) ==
    IF Len(tokens) <= max_context_tokens THEN tokens
    ELSE SubSeq(tokens, Len(tokens) - max_context_tokens + 1, Len(tokens))

\* line 1000: the slice [:max_context_tokens]
truncate(tokens) == Take(tokens, max_context_tokens)

generate_multi_intent_answer ==
    /\ pc = "generate_multi_intent_answer"
    /\ context' = context_of(intent_data)
    /\ truncated_context' = decode(truncate(encode(context_of(intent_data))))
    /\ \/ /\ calls' = Append(calls, Call("completion", "generate_multi_intent_answer",
                                         query, FALSE, <<>>))
          /\ Raise("service")
          /\ UNCHANGED final_answer
       \/ \E content \in Replies("generate_multi_intent_answer") :
          /\ calls' = Append(calls, Call("completion", "generate_multi_intent_answer",
                                         query, TRUE, content))
          /\ final_answer' = strip(content)
          /\ pc' = Return("generate_multi_intent_answer")
          /\ UNCHANGED <<exc, result>>
    /\ ReadOnly
    /\ UNCHANGED <<entry, query, intents, intent_keywords, k, j, vector,
                   new_metadata_results, all_metadata_results, intent_data,
                   parked>>

----------------------------------------------------------------------------
(* get_answer, lines 1069-1090 *)

\* markdown.markdown of a one-paragraph text
markdown(text) == IF text = <<>> THEN <<>> ELSE <<"<p>">> \o text \o <<"</p>">>

\* lines 1076-1083
serializable_match(match) ==
    [id |-> Get(match, "id", ""),
     metadata |-> [title |-> Get(Get(match, "metadata", <<>>), "title", ""),
                   tags |-> Get(Get(match, "metadata", <<>>), "tags", ""),
                   links |-> Get(Get(match, "metadata", <<>>), "links", "")]]

\* lines 1072-1088
serializable_intent_data(data) ==
    [i \in DOMAIN data |->
        [key |-> data[i].key,
         val |-> [metadata_results |->
                      [m \in DOMAIN data[i].val.metadata_results |->
                          serializable_match(data[i].val.metadata_results[m])],
                  pinecone_context |-> data[i].val.pinecone_context,
                  related_documents |-> data[i].val.related_documents,
                  related_links |-> data[i].val.related_links]]]

get_answer_return ==
    /\ pc = "serialize"
    /\ result' = [response |-> markdown(final_answer),
                  intent_data |-> serializable_intent_data(intent_data)]
    /\ pc' = "returned"
    /\ ReadOnly
    /\ UNCHANGED <<entry, exc, query, intents, intent_keywords, k, j, vector,
                   new_metadata_results, all_metadata_results, intent_data,
                   context, truncated_context, final_answer, calls, parked>>

----------------------------------------------------------------------------
(* Specifications *)

\* the locals of a run before its first statement
Fresh ==
    /\ exc = "none"
    /\ query \in Queries
    /\ k = 1
    /\ j = 1
    /\ vector = [of |-> <<>>]
    /\ new_metadata_results = <<>>
    /\ all_metadata_results = <<>>
    /\ context = <<>>
    /\ truncated_context = <<>>
    /\ final_answer = <<>>
    /\ result = NoResult
    /\ calls = <<>>
    /\ index_metadata = MetadataVectors
    /\ index_content = {ChunkA, ChunkB, ChunkFile, ChunkBare, ChunkNoMetadata}
    /\ parked = NoFrame

\* a request: get_answer(query)
Init ==
    /\ Fresh
    /\ entry = "get_answer"
    /\ pc = "identify_intents"
    /\ intents = <<>>
    /\ intent_keywords = <<>>
    /\ intent_data = <<>>

Next ==
    \/ identify_intents
    \/ generate_keywords_per_intent
    \/ generate_keywords_per_intent_return
    \/ query_for_multiple_intents_embed
    \/ query_for_multiple_intents_query
    \/ query_pinecone_embed
    \/ query_pinecone_query
    \/ query_for_multiple_intents_return
    \/ generate_multi_intent_answer
    \/ get_answer_return

Spec == Init /\ [][Next]_vars

\* a direct call of one stage function
InitStage ==
    /\ Fresh
    /\ entry \in {"identify_intents", "generate_keywords_per_intent",
                  "query_for_multiple_intents", "generate_multi_intent_answer"}
    /\ pc = entry
    /\ intents \in (IF entry = "generate_keywords_per_intent"
                    THEN StageIntentLists ELSE {<<>>})
    /\ intent_keywords \in (IF entry = "query_for_multiple_intents"
                            THEN StageIntentKeywords ELSE {<<>>})
    /\ intent_data \in (IF entry = "generate_multi_intent_answer"
                        THEN StageIntentData ELSE {<<>>})

NextStage ==
    \/ identify_intents
    \/ generate_keywords_per_intent
    \/ generate_keywords_per_intent_return
    \/ query_for_multiple_intents_embed
    \/ query_for_multiple_intents_query
    \/ query_pinecone_embed
    \/ query_pinecone_query
    \/ query_for_multiple_intents_return
    \/ generate_multi_intent_answer

SpecStage == InitStage /\ [][NextStage]_vars

----------------------------------------------------------------------------
(* insert_metadata and delete_metadata, lines 1106-1118: the requests of the *)
(* database page, served while a get_answer request is.  Each is one        *)
(* action: its calls read and write nothing but the metadata index.         *)

\* the ids uuid4 returns
NewIds == {ToString(3 + i) : i \in 1..MaxInserts}

\* the title, tags and links of an insert request
InsertRequests ==
    { [title |-> "T4", tags |-> "g4", links |-> "L4"] }

\* the ids of a delete request: one of a vector of the index, those of the
\* inserted vectors, and one of no vector
DeleteIds == {"1"} \cup NewIds \cup {"0"}

\* index.upsert(vectors=[(id, embedding, metadata)]): a vector of the same id
\* is replaced
upsert(index, id, metadata) ==
    {v \in index : v.id # id} \cup {[id |-> id, metadata |-> metadata]}

\* index.delete(ids=[id]): nothing happens when no vector has the id
delete(index, id) == {v \in index : v.id # id}

\* lines 1106-1115
insert_metadata ==
    /\ \E id \in NewIds : \E metadata \in InsertRequests :
          \/ \* get_embedding or upsert raised
             UNCHANGED index_metadata
          \/ index_metadata' = upsert(index_metadata, id, metadata)
    /\ UNCHANGED <<entry, pc, exc, query, intents, intent_keywords, k, j, vector,
                   new_metadata_results, all_metadata_results, intent_data, context,
                   truncated_context, final_answer, result, calls, index_content,
                   parked>>

\* lines 1117-1118
delete_metadata ==
    /\ \E id \in DeleteIds :
          \/ \* delete raised
             UNCHANGED index_metadata
          \/ index_metadata' = delete(index_metadata, id)
    /\ UNCHANGED <<entry, pc, exc, query, intents, intent_keywords, k, j, vector,
                   new_metadata_results, all_metadata_results, intent_data, context,
                   truncated_context, final_answer, result, calls, index_content,
                   parked>>

\* a get_answer request with insert and delete requests served beside it
NextService ==
    \/ identify_intents
    \/ generate_keywords_per_intent
    \/ generate_keywords_per_intent_return
    \/ query_for_multiple_intents_embed
    \/ query_for_multiple_intents_query
    \/ query_pinecone_embed
    \/ query_pinecone_query
    \/ query_for_multiple_intents_return
    \/ generate_multi_intent_answer
    \/ get_answer_return
    \/ insert_metadata
    \/ delete_metadata

SpecService == Init /\ [][NextService]_vars

----------------------------------------------------------------------------
(* Two requests.  The server runs each request in a thread of its own       *)
(* (app.run, line 1121); a thread can be suspended at any outbound call.    *)
(* The variables of the pipeline are the locals of the thread that runs;    *)
(* parked holds those of the other thread.  The indexes are the module's.   *)

\* the locals of the running thread
Frame ==
    [entry |-> entry, pc |-> pc, exc |-> exc, query |-> query, intents |-> intents,
     intent_keywords |-> intent_keywords, k |-> k, j |-> j, vector |-> vector,
     new_metadata_results |-> new_metadata_results,
     all_metadata_results |-> all_metadata_results, intent_data |-> intent_data,
     context |-> context, truncated_context |-> truncated_context,
     final_answer |-> final_answer, result |-> result, calls |-> calls]

\* the thread whose locals are f runs
Resume(f) ==
    /\ entry' = f.entry
    /\ pc' = f.pc
    /\ exc' = f.exc
    /\ query' = f.query
    /\ intents' = f.intents
    /\ intent_keywords' = f.intent_keywords
    /\ k' = f.k
    /\ j' = f.j
    /\ vector' = f.vector
    /\ new_metadata_results' = f.new_metadata_results
    /\ all_metadata_results' = f.all_metadata_results
    /\ intent_data' = f.intent_data
    /\ context' = f.context
    /\ truncated_context' = f.truncated_context
    /\ final_answer' = f.final_answer
    /\ result' = f.result
    /\ calls' = f.calls

\* variant: all_metadata_results is a list of the module, not of the call
NewFrame_shared(q) ==
    [entry |-> "get_answer", pc |-> "identify_intents", exc |-> "none", query |-> q,
     intents |-> <<>>, intent_keywords |-> <<>>, k |-> 1, j |-> 1,
     vector |-> [of |-> <<>>], new_metadata_results |-> <<>>,
     all_metadata_results |-> all_metadata_results, intent_data |-> <<>>,
     context |-> <<>>, truncated_context |-> <<>>, final_answer |-> <<>>,
     result |-> NoResult, calls |-> <<>>]

\* the locals of a call of get_answer(q) before its first statement: every
\* name the pipeline assigns is local to a function (lines 960, 975, 976)
NewFrame(q) ==
    [entry |-> "get_answer", pc |-> "identify_intents", exc |-> "none", query |-> q,
     intents |-> <<>>, intent_keywords |-> <<>>, k |-> 1, j |-> 1,
     vector |-> [of |-> <<>>], new_metadata_results |-> <<>>,
     all_metadata_results |-> <<>>, intent_data |-> <<>>,
     context |-> <<>>, truncated_context |-> <<>>, final_answer |-> <<>>,
     result |-> NoResult, calls |-> <<>>]

\* lines 85-88: a second request arrives, before, while or after the first
\* is served, and its thread runs
chat ==
    /\ parked = NoFrame
    /\ parked' = Frame
    /\ \E q \in Queries : Resume(NewFrame(q))
    /\ UNCHANGED <<index_metadata, index_content>>

\* the running thread is suspended and the other one, not yet finished, runs
switch ==
    /\ parked # NoFrame
    /\ parked.pc # "returned"
    /\ parked' = Frame
    /\ Resume(parked)
    /\ UNCHANGED <<index_metadata, index_content>>

\* the indexes hold two metadata vectors and one chunk
InitRuns ==
    /\ entry = "get_answer"
    /\ pc = "identify_intents"
    /\ exc = "none"
    /\ query \in Queries
    /\ intents = <<>>
    /\ intent_keywords = <<>>
    /\ k = 1
    /\ j = 1
    /\ vector = [of |-> <<>>]
    /\ new_metadata_results = <<>>
    /\ all_metadata_results = <<>>
    /\ intent_data = <<>>
    /\ context = <<>>
    /\ truncated_context = <<>>
    /\ final_answer = <<>>
    /\ result = NoResult
    /\ calls = <<>>
    /\ index_metadata = {v \in MetadataVectors : v.id \in {"1", "2"}}
    /\ index_content = {ChunkA}
    /\ parked = NoFrame

NextRuns ==
    \/ identify_intents
    \/ generate_keywords_per_intent
    \/ generate_keywords_per_intent_return
    \/ query_for_multiple_intents_embed
    \/ query_for_multiple_intents_query
    \/ query_pinecone_embed
    \/ query_pinecone_query
    \/ query_for_multiple_intents_return
    \/ generate_multi_intent_answer
    \/ get_answer_return
    \/ chat
    \/ switch

SpecRuns == InitRuns /\ [][NextRuns]_vars

----------------------------------------------------------------------------
(* Vocabulary of the properties *)

Succeeded == pc = "returned" /\ exc = "none"

StageCalls(stage) == SelectSeq(calls, LAMBDA c : c.stage = stage)

\* the answers of the metadata index, in the order of the queries
MetadataReplies == SelectSeq(calls, LAMBDA c : c.stage = "index_metadata" /\ c.ok)

Kept(data, i) == Ids(data[i].val.metadata_results)

\* the ids of all the metadata matches of a mapping, intent after intent
RECURSIVE MatchIds(_)
MatchIds(data) ==
    IF data = <<>> THEN <<>>
    ELSE [m \in DOMAIN data[1].val.metadata_results |->
              data[1].val.metadata_results[m].id] \o MatchIds(Tail(data))

NoDuplicate(ids) == \A p, q \in DOMAIN ids : p # q => ids[p] # ids[q]

AllSpace(s) == \A i \in DOMAIN s : IsSpace(s[i])

\* x is f without the whitespace at its two ends
IsTrimOf(x, f) ==
    \E a \in 0..Len(f) : \E b \in a..Len(f) :
        /\ x = SubSeq(f, a + 1, b)
        /\ \A i \in 1..a : IsSpace(f[i])
        /\ \A i \in (b + 1)..Len(f) : IsSpace(f[i])
        /\ x # <<>> => ~IsSpace(x[1]) /\ ~IsSpace(x[Len(x)])

Commas(s) == {i \in DOMAIN s : s[i] = ","}

\* the position of the n-th comma of s; 0 for n = 0, Len(s) + 1 past the last
CommaAt(s, n) ==
    IF n = 0 THEN 0
    ELSE IF n > Cardinality(Commas(s)) THEN Len(s) + 1
    ELSE CHOOSE p \in Commas(s) : Cardinality({q \in Commas(s) : q <= p}) = n

\* the n-th comma-separated field of s
Field(s, n) == SubSeq(s, CommaAt(s, n - 1) + 1, CommaAt(s, n) - 1)

\* w occurs in t
Contains(t, w) == \E i \in 0..(Len(t) - Len(w)) : SubSeq(t, i + 1, i + Len(w)) = w

----------------------------------------------------------------------------
(* C1 *)

----------------------------------------------------------------------------
(* C2 *)

\* C2: the metadata_results of an intent contain no id of the metadata_results
\* of an earlier intent; an id the index returned for two intents is kept for
\* the earlier one (or was kept before it) and is dropped for the later one.
C2_FirstIntentWins ==
    \A q \in DOMAIN intent_data : \A p \in 1..(q - 1) :
        /\ Kept(intent_data, q) \cap Kept(intent_data, p) = {}
        /\ q <= Len(MetadataReplies) =>
              \A id \in Ids(MetadataReplies[p].reply) \cap Ids(MetadataReplies[q].reply) :
                 /\ id \notin Kept(intent_data, q)
                 /\ \E r \in 1..p : id \in Kept(intent_data, r)

\* the index returned the same vector for both intents: the first kept it, the
\* second did not
C2_Witness ==
    /\ entry = "query_for_multiple_intents"
    /\ pc = "returned"
    /\ Len(intent_data) = 2
    /\ \E id \in Ids(MetadataReplies[1].reply) \cap Ids(MetadataReplies[2].reply) :
          id \in Kept(intent_data, 1) /\ id \notin Kept(intent_data, 2)

----------------------------------------------------------------------------
(* C3 *)

\* C3: the context passed to the completion service encodes to at most
\* max_context_tokens tokens.
C3_TokenBudget == Len(encode(truncated_context)) <= max_context_tokens

\* generate_multi_intent_answer was given contexts that exceed the budget and
\* issued its completion call
C3_Witness ==
    /\ entry = "generate_multi_intent_answer"
    /\ pc = "returned"
    /\ StageCalls("generate_multi_intent_answer") # <<>>
    /\ Len(encode(context)) > max_context_tokens

----------------------------------------------------------------------------
(* C4 *)

\* C4: a context of more than max_context_tokens tokens is cut to the text of
\* its first max_context_tokens tokens, a proper prefix of the context (the
\* tail is what is lost); a context within the budget is passed on unchanged.
C4_TruncationKeepsPrefix ==
    IF Len(encode(context)) <= max_context_tokens
    THEN truncated_context = context
    ELSE /\ encode(truncated_context) = SubSeq(encode(context), 1, max_context_tokens)
         /\ Len(truncated_context) < Len(context)
         /\ truncated_context = SubSeq(context, 1, Len(truncated_context))

\* two intents, the cut falls behind the block of the first: only the block of
\* the second intent loses text
C4_Witness ==
    /\ entry = "generate_multi_intent_answer"
    /\ pc = "returned"
    /\ Len(intent_data) = 2
    /\ Len(encode(context)) > max_context_tokens
    /\ Len(truncated_context) > Len(block_of(intent_data[1]))

\* a context of exactly max_context_tokens tokens was passed on whole
AtBudget ==
    /\ pc = "returned"
    /\ Len(encode(context)) = max_context_tokens
    /\ truncated_context = context

----------------------------------------------------------------------------
(* C5 *)

Stages == [i \in DOMAIN calls |-> calls[i].stage]

\* the four outbound calls of the retrieval of one intent
RetrievalStages ==
    <<"query_for_multiple_intents", "index_metadata", "query_pinecone", "index_content">>

\* the calls of one pass: intent extraction, one keyword expansion per intent,
\* the retrieval of each intent, one synthesis
OnePass ==
    <<"identify_intents">>
        \o Rep("generate_keywords_per_intent", Len(intents))
        \o [i \in 1..(4 * Len(intent_keywords)) |-> RetrievalStages[((i - 1) % 4) + 1]]
        \o <<"generate_multi_intent_answer">>

\* C5, as claimed: a successful get_answer runs a second phase exactly once:
\* after the draft synthesis come a keyword expansion, a retrieval and a
\* second synthesis.
C5_TwoPhaseRefinement ==
    (entry = "get_answer" /\ Succeeded) =>
        /\ Len(StageCalls("generate_multi_intent_answer")) = 2
        /\ \E a, b, c \in DOMAIN calls :
              /\ a < b /\ b < c
              /\ calls[a].stage = "generate_multi_intent_answer"
              /\ calls[b].stage = "generate_keywords_per_intent"
              /\ calls[c].stage = "index_metadata"

\* C5, amended: a successful get_answer runs one pass only; its single
\* synthesis is its last outbound call, the trimmed reply of that call is the
\* answer it returns, and once it has returned nothing more happens.
C5_SinglePass ==
    (entry = "get_answer" /\ Succeeded) =>
        /\ Stages = OnePass
        /\ final_answer = strip(calls[Len(calls)].reply)
        /\ result.response = markdown(final_answer)
        /\ ~ENABLED Next

\* a successful request with one intent, retrieved and synthesized
C5_Witness ==
    /\ entry = "get_answer"
    /\ Succeeded
    /\ Len(intents) = 1
    /\ Len(intent_data) = 1
    /\ final_answer # <<>>

----------------------------------------------------------------------------
(* C6 *)

\* C6, as claimed: a retrieval follows the draft synthesis, and the text it
\* embeds holds every keyword of the first intent.
C6_RefinementSuperset ==
    (entry = "get_answer" /\ Succeeded /\ intent_keywords # <<>>) =>
        \E a, b \in DOMAIN calls :
            /\ a < b
            /\ calls[a].stage = "generate_multi_intent_answer"
            /\ calls[b].svc = "embedding"
            /\ \A i \in DOMAIN intent_keywords[1].val :
                  Contains(calls[b].arg, intent_keywords[1].val[i])

\* C6, amended: no retrieval follows the synthesis; every retrieval of the run
\* embeds the space-separated keywords generated for the first intent, all of
\* them and nothing else, and no keyword is mined from the answer.
C6_RetrievalKeywords ==
    entry = "get_answer" =>
        \A b \in DOMAIN calls :
            /\ calls[b].svc = "embedding" =>
                  /\ intent_keywords # <<>>
                  /\ calls[b].arg = join(<<" ">>, intent_keywords[1].val)
                  /\ \A i \in DOMAIN intent_keywords[1].val :
                        Contains(calls[b].arg, intent_keywords[1].val[i])
            /\ calls[b].stage = "generate_multi_intent_answer" => b = Len(calls)
            /\ calls[b].stage = "generate_keywords_per_intent" =>
                  calls[b].arg \in {intents[i] : i \in DOMAIN intents}

\* a successful request whose intent had several keywords
C6_Witness ==
    /\ entry = "get_answer"
    /\ Succeeded
    /\ intent_keywords # <<>>
    /\ Len(intent_keywords[1].val) = 3
    /\ Len(SelectSeq(calls, LAMBDA c : c.svc = "embedding")) = 2

----------------------------------------------------------------------------
(* C7 *)

\* C7: whatever fails in a get_answer run, get_answer does not raise: it
\* returns the apology and an empty mapping, never the intents retrieved so far.
C7_CatchAll ==
    entry = "get_answer" =>
        /\ pc # "raised"
        /\ (exc # "none" \/ (calls # <<>> /\ ~calls[Len(calls)].ok)) =>
              /\ pc = "returned"
              /\ result.response = APOLOGY
              /\ result.intent_data = <<>>

\* the synthesis call failed after an intent had been retrieved
C7_Witness ==
    /\ entry = "get_answer"
    /\ exc = "service"
    /\ intent_data # <<>>
    /\ calls[Len(calls)].stage = "generate_multi_intent_answer"
    /\ pc = "returned"

----------------------------------------------------------------------------
(* C8 *)

\* C8: a failed outbound call is the last outbound call of the run: it is not
\* issued again and no other call follows it.
C8_NoRetryAbort ==
    /\ \A i \in DOMAIN calls : ~calls[i].ok => i = Len(calls)
    /\ exc # "none" => ~ENABLED Next

\* the metadata query of the intent failed: no content query, no synthesis
C8_Witness ==
    /\ entry = "get_answer"
    /\ pc = "returned"
    /\ calls # <<>>
    /\ calls[Len(calls)].stage = "index_metadata"
    /\ ~calls[Len(calls)].ok
    /\ StageCalls("generate_multi_intent_answer") = <<>>

----------------------------------------------------------------------------
(* C9 *)

\* C9: identify_intents returns no intent for an empty or blank completion
\* text, and otherwise exactly one: the text without the whitespace at its ends;
\* never an empty intent, never two.
C9_IntentDegradation ==
    (calls # <<>> /\ calls[1].stage = "identify_intents" /\ calls[1].ok) =>
        /\ AllSpace(calls[1].reply) => intents = <<>>
        /\ ~AllSpace(calls[1].reply) =>
              Len(intents) = 1 /\ IsTrimOf(intents[1], calls[1].reply)
        /\ Len(intents) <= 1
        /\ \A i \in DOMAIN intents : intents[i] # <<>>

\* a blank completion text gave no intent
C9_Witness ==
    /\ entry = "identify_intents"
    /\ pc = "returned"
    /\ calls[1].reply = <<" ", " ">>
    /\ intents = <<>>

----------------------------------------------------------------------------
(* C10 *)

\* the last keyword completion issued for an intent
KeywordCall(intent) ==
    LET c == StageCalls("generate_keywords_per_intent")
        last == CHOOSE i \in DOMAIN c :
                    /\ c[i].arg = intent /\ c[i].ok
                    /\ \A n \in DOMAIN c : (c[n].arg = intent /\ c[n].ok) => n <= i
    IN c[last]

\* C10: the keywords of an intent are the comma-separated fields of its
\* completion text, in order, each without the whitespace at its ends; there
\* is one keyword more than there are commas; "a, b ,c" gives a, b, c.
C10_KeywordSplit ==
    \A m \in DOMAIN intent_keywords :
        (\E i \in DOMAIN calls : calls[i].stage = "generate_keywords_per_intent") =>
            LET text == KeywordCall(intent_keywords[m].key).reply
                keywords == intent_keywords[m].val
            IN /\ Len(keywords) = Cardinality(Commas(text)) + 1
               /\ \A n \in DOMAIN keywords : IsTrimOf(keywords[n], Field(text, n))
               /\ text = Example => keywords = << <<"a">>, <<"b">>, <<"c">> >>

\* the completion text "a, b ,c" gave the three keywords
C10_Witness ==
    /\ entry = "generate_keywords_per_intent"
    /\ pc = "returned"
    /\ Len(intent_keywords) = 1
    /\ KeywordCall(intent_keywords[1].key).reply = Example
    /\ intent_keywords[1].val = << <<"a">>, <<"b">>, <<"c">> >>

----------------------------------------------------------------------------
(* C11 *)

\* the embedding and query calls, in order: four for each intent retrieved
RetrievalCalls == SelectSeq(calls, LAMBDA c : c.svc \in {"embedding", "query"})

\* a match of the last answer, or a match kept from it, has no metadata record
MetadataMissing ==
    /\ calls # <<>>
    /\ calls[Len(calls)].stage = "index_content"
    /\ calls[Len(calls)].ok
    /\ \/ \E i \in DOMAIN calls[Len(calls)].reply : ~HasMetadata(calls[Len(calls)].reply[i])
       \/ \E i \in DOMAIN new_metadata_results : ~HasMetadata(new_metadata_results[i])

EmptyKeywords == << <<>> >>

\* C11: an empty keyword completion gives the intent the keywords [""]; the
\* retrieval of an intent with the keywords [""] embeds the empty text, and
\* once its four calls are answered the intent has its entry in intent_data:
\* nothing is raised but a failed call or a missing metadata record.
C11_EmptyKeywords ==
    /\ entry = "generate_keywords_per_intent" =>
          \A m \in DOMAIN intent_keywords :
              KeywordCall(intent_keywords[m].key).reply = <<>> =>
                  intent_keywords[m].val = EmptyKeywords
    /\ entry = "query_for_multiple_intents" =>
          /\ exc # "none" => (~calls[Len(calls)].ok \/ MetadataMissing)
          /\ \A p \in DOMAIN intent_keywords :
                intent_keywords[p].val = EmptyKeywords =>
                    /\ \A n \in {4 * p - 3, 4 * p - 1} \cap DOMAIN RetrievalCalls :
                          RetrievalCalls[n].svc = "embedding" /\ RetrievalCalls[n].arg = <<>>
                    /\ (4 * p \in DOMAIN RetrievalCalls /\ RetrievalCalls[4 * p].ok
                            /\ ~MetadataMissing) =>
                          /\ j > p
                          /\ HasKey(intent_data, intent_keywords[p].key)

\* query_for_multiple_intents returned the entries of two intents, the second
\* retrieved with the keywords [""]
C11_Witness ==
    /\ entry = "query_for_multiple_intents"
    /\ pc = "returned"
    /\ exc = "none"
    /\ Len(intent_data) = 2
    /\ intent_keywords[2].val = EmptyKeywords
    /\ RetrievalCalls[5].arg = <<>>

\* generate_keywords_per_intent returned [""] for an empty completion text
EmptyCompletion ==
    /\ entry = "generate_keywords_per_intent"
    /\ pc = "returned"
    /\ Len(intent_keywords) = 1
    /\ KeywordCall(intent_keywords[1].key).reply = <<>>
    /\ intent_keywords[1].val = EmptyKeywords

----------------------------------------------------------------------------
(* C12 *)

\* the answers of the content index, in the order of the queries
ContentReplies == SelectSeq(calls, LAMBDA c : c.stage = "index_content" /\ c.ok)

\* C12: in a get_answer run an exception has one of two causes, a failed call
\* or a missing metadata record, never an empty result: a run whose calls were
\* all answered returns on its normal path; with no intent every later stage
\* returns an empty mapping or text; an intent with empty keywords and no match
\* gets an entry of empty lists and an empty context.
C12_EmptyNotError ==
    entry = "get_answer" =>
        /\ exc # "none" => (~calls[Len(calls)].ok \/ MetadataMissing)
        /\ (pc = "returned" /\ ~MetadataMissing /\ \A i \in DOMAIN calls : calls[i].ok) =>
              /\ exc = "none"
              /\ result.response = markdown(final_answer)
              /\ result.response # APOLOGY
              /\ Len(result.intent_data) = Len(intents)
        /\ (Succeeded /\ intents = <<>>) =>
              /\ intent_keywords = <<>>
              /\ intent_data = <<>>
              /\ context = <<>>
              /\ result.intent_data = <<>>
        /\ \A i \in DOMAIN intent_data :
              /\ MetadataReplies[i].reply = <<>> =>
                    /\ intent_data[i].val.metadata_results = <<>>
                    /\ intent_data[i].val.related_documents = <<>>
                    /\ intent_data[i].val.related_links = <<>>
              /\ ContentReplies[i].reply = <<>> =>
                    intent_data[i].val.pinecone_context = <<>>

\* a request whose intent got empty keywords, no match from either index and
\* an empty answer: returned on the normal path
C12_Witness ==
    /\ entry = "get_answer"
    /\ Succeeded
    /\ Len(intent_data) = 1
    /\ intent_keywords[1].val = EmptyKeywords
    /\ MetadataReplies[1].reply = <<>>
    /\ ContentReplies[1].reply = <<>>
    /\ final_answer = <<>>
    /\ result.response = <<>>
    /\ result.intent_data[1].val.metadata_results = <<>>

\* a request with no intent identified returned on the normal path
NoIntent ==
    /\ entry = "get_answer"
    /\ Succeeded
    /\ intents = <<>>
    /\ result.intent_data = <<>>

----------------------------------------------------------------------------
(* C13 *)

\* the payload form of a match: the empty string for each field it lacks
Shaped(match) ==
    LET ValueOf(name) ==
            IF HasMetadata(match) /\ name \in DOMAIN match.metadata
            THEN match.metadata[name] ELSE ""
    IN [id |-> match.id,
        metadata |-> [title |-> ValueOf("title"), tags |-> ValueOf("tags"),
                      links |-> ValueOf("links")]]

\* every call of the run was answered and the content matches have their
\* metadata record
Answered ==
    /\ entry = "get_answer"
    /\ pc = "returned"
    /\ \A i \in DOMAIN calls : calls[i].ok
    /\ \A i \in DOMAIN ContentReplies : ~KeyError(ContentReplies[i].reply)

\* C13, as claimed: a run whose calls were all answered returns its normal
\* result, and every match the metadata index returned to it is in the payload
\* with the empty string for each of title, tags and links that it lacks, also
\* a match that has no metadata record at all.
C13_MissingFieldsDefault ==
    Answered =>
        /\ exc = "none"
        /\ result.response # APOLOGY
        /\ Len(result.intent_data) = Len(MetadataReplies)
        /\ \A i \in DOMAIN MetadataReplies :
              result.intent_data[i].val.metadata_results =
                  [m \in DOMAIN MetadataReplies[i].reply |->
                      Shaped(MetadataReplies[i].reply[m])]

\* what holds of the code: the same for the runs whose metadata matches all
\* have a metadata record
FieldsDefault ==
    (Answered /\ \A i \in DOMAIN MetadataReplies : ~KeyError(MetadataReplies[i].reply)) =>
        /\ exc = "none"
        /\ Len(result.intent_data) = Len(MetadataReplies)
        /\ \A i \in DOMAIN MetadataReplies :
              result.intent_data[i].val.metadata_results =
                  [m \in DOMAIN MetadataReplies[i].reply |->
                      Shaped(MetadataReplies[i].reply[m])]

\* a match with tags only is in the payload with empty title and links
TagsOnlyShaped ==
    /\ Answered
    /\ exc = "none"
    /\ Len(result.intent_data) = 1
    /\ \E m \in DOMAIN result.intent_data[1].val.metadata_results :
          result.intent_data[1].val.metadata_results[m] =
              [id |-> "2", metadata |-> [title |-> "", tags |-> "g2", links |-> ""]]

\* a match without metadata record ended the run on the apology
NoRecordFails ==
    /\ Answered
    /\ exc = "metadata"
    /\ \E m \in DOMAIN MetadataReplies[1].reply : ~HasMetadata(MetadataReplies[1].reply[m])
    /\ result = [response |-> APOLOGY, intent_data |-> <<>>]

----------------------------------------------------------------------------
(* C14 *)

\* the number of positions of list that hold x
Count(list, x) == Cardinality({i \in DOMAIN list : list[i] = x})

\* C14: in the mapping get_answer returns, the related_documents and the
\* related_links of an intent have one entry for each of its metadata_results,
\* in the same order: the title and the links of that match; the
\* metadata_results are the matches the index returned; the title of a single
\* match is in related_documents once.
C14_RelatedMirror ==
    \A i \in DOMAIN result.intent_data :
        LET e == result.intent_data[i].val
        IN /\ Len(e.related_documents) = Len(e.metadata_results)
           /\ Len(e.related_links) = Len(e.metadata_results)
           /\ \A m \in DOMAIN e.metadata_results :
                 /\ e.related_documents[m] = e.metadata_results[m].metadata.title
                 /\ e.related_links[m] = e.metadata_results[m].metadata.links
           /\ [m \in DOMAIN e.metadata_results |-> e.metadata_results[m].id]
                  = [m \in DOMAIN MetadataReplies[i].reply |-> MetadataReplies[i].reply[m].id]
           /\ Len(e.metadata_results) = 1 =>
                 Count(e.related_documents, e.metadata_results[1].metadata.title) = 1

\* one match retrieved: its title is in related_documents once
C14_Witness ==
    /\ entry = "get_answer"
    /\ Succeeded
    /\ Len(result.intent_data) = 1
    /\ Len(MetadataReplies[1].reply) = 1
    /\ MetadataReplies[1].reply[1].id = "1"
    /\ result.intent_data[1].val.related_documents = <<"T1">>
    /\ result.intent_data[1].val.related_links = <<"L1">>

\* two matches, the first without title: the lists keep its place
TwoMatchesListed ==
    /\ entry = "get_answer"
    /\ Succeeded
    /\ Len(result.intent_data) = 1
    /\ result.intent_data[1].val.related_documents = <<"", "T1">>

----------------------------------------------------------------------------
(* C15 *)

IsPrefix(a, b) == Len(a) <= Len(b) /\ a = SubSeq(b, 1, Len(a))

\* the calls of a run with n intents, in pipeline order
PipelineOrder(n) ==
    <<"identify_intents">>
        \o Rep("generate_keywords_per_intent", n)
        \o [i \in 1..(4 * n) |-> RetrievalStages[((i - 1) % 4) + 1]]
        \o <<"generate_multi_intent_answer">>

\* the calls of a run so far follow the pipeline order, and every call before
\* the last one has returned
InOrder ==
    entry = "get_answer" =>
        /\ IsPrefix(Stages, PipelineOrder(Len(intents)))
        /\ \A i \in 1..(Len(calls) - 1) : calls[i].ok
        /\ \A p \in DOMAIN intent_keywords :
              \A n \in (4 * p - 3)..(4 * p) \cap DOMAIN RetrievalCalls :
                  RetrievalCalls[n].arg = query_text(intent_keywords[p].val)
        /\ \A n \in DOMAIN RetrievalCalls :
              RetrievalCalls[n].svc = (IF n % 2 = 1 THEN "embedding" ELSE "query")

\* a step issues at most one call, after the calls issued before it
OneAtATime ==
    /\ Len(calls') <= Len(calls) + 1
    /\ IsPrefix(calls, calls')

\* C15: the outbound calls of a run happen one at a time and in pipeline
\* order: the intent completion, a keyword completion for each intent, for each
\* intent its metadata query and then its content query (each after the
\* embedding of its keywords), then the synthesis; a call is issued only when
\* every call before it has returned.
C15_StageOrder == []InOrder /\ [][OneAtATime]_vars

\* a run with one intent has issued its seven calls in order
C15_Witness ==
    /\ entry = "get_answer"
    /\ Succeeded
    /\ Len(intents) = 1
    /\ Stages = <<"identify_intents", "generate_keywords_per_intent",
                  "query_for_multiple_intents", "index_metadata",
                  "query_pinecone", "index_content",
                  "generate_multi_intent_answer">>

----------------------------------------------------------------------------
(* C16 *)

\* a step of the get_answer run
PipelineStep == calls' # calls \/ pc' # pc \/ result' # result

\* a step leaves the content index as it is, a step of the run leaves the
\* metadata index as it is, and a step that changes the metadata index is one
\* of insert_metadata and delete_metadata
IndexFrame ==
    /\ index_content' = index_content
    /\ PipelineStep => index_metadata' = index_metadata
    /\ index_metadata' # index_metadata => (insert_metadata \/ delete_metadata)

\* the calls of the run are completions, embeddings and queries
QueriesOnly ==
    \A i \in DOMAIN calls :
        /\ calls[i].svc \in {"completion", "embedding", "query"}
        /\ calls[i].stage \in {"index_metadata", "index_content"} => calls[i].svc = "query"

\* C16: a get_answer run, successful or failed, only queries its services: no
\* step of it changes the content index or the metadata index; the metadata
\* index changes by insert_metadata and delete_metadata only, and the content
\* index not at all.
C16_ReadOnlyPipeline == [][IndexFrame]_vars /\ []QueriesOnly

\* a run returned an intent that holds a vector inserted while it was served,
\* from an index that a delete request has changed as well
C16_Witness ==
    /\ entry = "get_answer"
    /\ Succeeded
    /\ Len(intent_data) = 1
    /\ \E m \in DOMAIN intent_data[1].val.metadata_results :
          intent_data[1].val.metadata_results[m].id \in NewIds
    /\ calls[1].reply # <<>>
    /\ "1" \notin {v.id : v \in index_metadata}

----------------------------------------------------------------------------
(* C17 *)

\* what the services answered to the calls of a log
Responses(log) == [i \in DOMAIN log |-> [ok |-> log[i].ok, reply |-> log[i].reply]]

\* the metadata matches a run with the locals f kept for its first intent are
\* those the index returned for it
FirstKeptAll(f) ==
    LET replies == SelectSeq(f.calls, LAMBDA c : c.stage = "index_metadata" /\ c.ok)
    IN f.intent_data # <<>> =>
           f.intent_data[1].val.metadata_results = replies[1].reply

\* a run that has issued no call has seen no id and retrieved nothing
StartsFresh(f) ==
    f.calls = <<>> =>
        /\ f.all_metadata_results = <<>>
        /\ f.intent_keywords = <<>>
        /\ f.intent_data = <<>>
        /\ f.result = NoResult

\* C17: of two get_answer runs, one after the other or interleaved, each
\* starts with no id seen and nothing retrieved, each keeps for its first
\* intent every match the index returned to it, whatever the other run kept,
\* and when both got the same query and the same service responses they return
\* the same result.
C17_NoCrossRunState ==
    /\ StartsFresh(Frame)
    /\ FirstKeptAll(Frame)
    /\ parked # NoFrame =>
          /\ StartsFresh(parked)
          /\ FirstKeptAll(parked)
          /\ (pc = "returned" /\ parked.pc = "returned" /\ query = parked.query
                  /\ Responses(calls) = Responses(parked.calls)) =>
                (result = parked.result /\ intent_data = parked.intent_data)

\* both runs returned, each with the vector "1" the index returned to both
C17_Witness ==
    /\ parked # NoFrame
    /\ Succeeded
    /\ parked.pc = "returned" /\ parked.exc = "none"
    /\ Responses(calls) = Responses(parked.calls)
    /\ Len(result.intent_data) = 1
    /\ Ids(result.intent_data[1].val.metadata_results) = {"1"}
    /\ Ids(parked.result.intent_data[1].val.metadata_results) = {"1"}

\* the two runs are interleaved: each has kept the vector "1" and neither has
\* queried the content index yet
Interleaved ==
    /\ parked # NoFrame
    /\ pc = "query_pinecone"
    /\ parked.pc = "query_pinecone"
    /\ Ids(all_metadata_results) = {"1"}
    /\ Ids(parked.all_metadata_results) = {"1"}

----------------------------------------------------------------------------
(* C18 *)

\* the length of the block of an intent: two labels, the intent, its content
\* context and two line ends
BlockLen(item) ==
    Len(IntentLabel) + Len(item.key) + 1
        + Len(PineconeLabel) + Len(item.val.pinecone_context) + 1

\* the number of characters of the context before the block of intent i
RECURSIVE BlockStart(_, _)
BlockStart(data, i) ==
    IF i = 1 THEN 0 ELSE BlockStart(data, i - 1) + BlockLen(data[i - 1]) + 1

\* the block of item is in text from position off + 1 on
BlockAt(text, off, item) ==
    LET a == off + Len(IntentLabel)
        b == a + Len(item.key) + 1
        c == b + Len(PineconeLabel)
        d == c + Len(item.val.pinecone_context) + 1
    IN /\ d <= Len(text)
       /\ SubSeq(text, off + 1, a) = IntentLabel
       /\ SubSeq(text, a + 1, b - 1) = item.key
       /\ text[b] = "\n"
       /\ SubSeq(text, b + 1, c) = PineconeLabel
       /\ SubSeq(text, c + 1, d - 1) = item.val.pinecone_context
       /\ text[d] = "\n"

\* the context holds the labeled blocks of the intents in mapping order
BlocksInOrder ==
    \A i \in DOMAIN intent_data :
        /\ BlockAt(context, BlockStart(intent_data, i), intent_data[i])
        /\ i > 1 => context[BlockStart(intent_data, i)] = "\n"

\* a field of the match occurs in the text
Mentions(text, match) ==
    \E n \in DOMAIN text :
        text[n] \in {match.id} \cup {match.metadata[f] : f \in DOMAIN match.metadata}

\* generate_multi_intent_answer has assembled the context
Assembled == StageCalls("generate_multi_intent_answer") # <<>>

\* C18, as claimed: the context holds, for each intent in mapping order, a
\* labeled block with the intent name and the content context of the intent,
\* and it renders each metadata match of the intent.
C18_ContextBlocks ==
    Assembled =>
        /\ BlocksInOrder
        /\ \A i \in DOMAIN intent_data :
              \A m \in DOMAIN intent_data[i].val.metadata_results :
                  Mentions(context, intent_data[i].val.metadata_results[m])

\* C18, amended: the context holds, for each intent in mapping order, a block
\* "Intent: <intent>\nPinecone Context: <content context>\n", the blocks
\* separated by a line end, and nothing else: no field of a metadata match of an
\* intent is in it.
C18_ContextContent ==
    Assembled =>
        /\ BlocksInOrder
        /\ Len(context) =
              (IF intent_data = <<>> THEN 0
               ELSE BlockStart(intent_data, Len(intent_data))
                        + BlockLen(intent_data[Len(intent_data)]))
        /\ \A i \in DOMAIN intent_data :
              \A m \in DOMAIN intent_data[i].val.metadata_results :
                  ~Mentions(context, intent_data[i].val.metadata_results[m])

\* the context of two intents was assembled, the first of them with a
\* metadata match
C18_Witness ==
    /\ entry = "generate_multi_intent_answer"
    /\ pc = "returned"
    /\ Len(intent_data) = 2
    /\ intent_data[1].val.metadata_results # <<>>
    /\ intent_data[1].val.pinecone_context = <<"a">>
    /\ intent_data[2].val.pinecone_context = <<"a">>
    /\ Len(context) = 62

----------------------------------------------------------------------------
(* C19 *)

Completions == SelectSeq(calls, LAMBDA c : c.svc = "completion")

\* the direct call of a stage function is over
Over == pc \in {"returned", "raised"}

\* C19: a call of identify_intents issues one completion call, and so does a
\* call of generate_multi_intent_answer; a call of generate_keywords_per_intent
\* that returns has issued one completion call for each element of the list it
\* was given, in order, repeated intents included (one that raises stopped at
\* the call that failed); query_for_multiple_intents issues none.
C19_CompletionCounts ==
    /\ (entry \in {"identify_intents", "generate_multi_intent_answer"} /\ Over) =>
          /\ Len(Completions) = 1
          /\ Len(calls) = 1
          /\ calls[1].stage = entry
    /\ entry \in {"identify_intents", "generate_multi_intent_answer"} =>
          Len(Completions) <= 1
    /\ entry = "generate_keywords_per_intent" =>
          /\ calls = Completions
          /\ Len(Completions) <= Len(intents)
          /\ \A i \in DOMAIN Completions : Completions[i].arg = intents[i]
          /\ pc = "returned" => Len(Completions) = Len(intents)
          /\ pc = "raised" => ~Completions[Len(Completions)].ok
    /\ entry = "query_for_multiple_intents" => Completions = <<>>

\* generate_keywords_per_intent was given the same intent twice: two
\* completion calls, one key
C19_Witness ==
    /\ entry = "generate_keywords_per_intent"
    /\ pc = "returned"
    /\ intents = << <<"a">>, <<"a">> >>
    /\ Len(Completions) = 2
    /\ Len(intent_keywords) = 1

\* identify_intents and generate_multi_intent_answer returned after one call
OneCompletion ==
    /\ entry \in {"identify_intents", "generate_multi_intent_answer"}
    /\ pc = "returned"
    /\ Len(Completions) = 1

----------------------------------------------------------------------------
(* C20 *)

\* the text a content match stands for: its chunk_text, or else a placeholder
\* that names its file, or else one that names no file
Piece(match) ==
    CASE "chunk_text" \in DOMAIN match.metadata -> match.metadata.chunk_text
      [] "chunk_text" \notin DOMAIN match.metadata /\ "file_name" \in DOMAIN match.metadata ->
             <<"C", "o", "n", "t", "e", "n", "t", " ", "f", "r", "o", "m", " ">>
                 \o match.metadata.file_name
      [] OTHER ->
             <<"C", "o", "n", "t", "e", "n", "t", " ", "f", "r", "o", "m", " ",
               "u", "n", "k", "n", "o", "w", "n", " ", "f", "i", "l", "e">>

\* the number of characters before the text of match i in the joined text
RECURSIVE PieceStart(_, _)
PieceStart(matches, i) ==
    IF i = 1 THEN 0 ELSE PieceStart(matches, i - 1) + Len(Piece(matches[i - 1])) + 1

\* text is the texts of the matches, in their order, one space between two
SpaceJoined(text, matches) ==
    /\ \A i \in DOMAIN matches :
          LET a == PieceStart(matches, i)
          IN /\ a + Len(Piece(matches[i])) <= Len(text)
             /\ SubSeq(text, a + 1, a + Len(Piece(matches[i]))) = Piece(matches[i])
             /\ i > 1 => text[a] = " "
    /\ Len(text) = (IF matches = <<>> THEN 0
                    ELSE PieceStart(matches, Len(matches))
                             + Len(Piece(matches[Len(matches)])))

\* C20: the content context of an intent is the space-joined concatenation,
\* in the order of the content index's answer, of one text for each match: its
\* chunk_text, or "Content from <file_name>", or "Content from unknown file";
\* the empty text when the answer has no match.
C20_ContentContext ==
    entry \in {"get_answer", "query_for_multiple_intents"} =>
        \A i \in DOMAIN intent_data :
            /\ SpaceJoined(intent_data[i].val.pinecone_context, ContentReplies[i].reply)
            /\ ContentReplies[i].reply = <<>> => intent_data[i].val.pinecone_context = <<>>

\* a match without chunk_text before one that has it: "Content from f a"
C20_Witness ==
    /\ entry = "query_for_multiple_intents"
    /\ pc = "returned"
    /\ exc = "none"
    /\ \E i \in DOMAIN intent_data :
          /\ ContentReplies[i].reply = <<ChunkFile, ChunkA>>
          /\ intent_data[i].val.pinecone_context =
                 <<"C", "o", "n", "t", "e", "n", "t", " ", "f", "r", "o", "m", " ",
                   "f", " ", "a">>

\* a match with neither chunk_text nor file_name
UnknownFileContext ==
    /\ entry = "query_for_multiple_intents"
    /\ \E i \in DOMAIN intent_data :
          /\ ContentReplies[i].reply = <<ChunkBare>>
          /\ intent_data[i].val.pinecone_context =
                 <<"C", "o", "n", "t", "e", "n", "t", " ", "f", "r", "o", "m", " ",
                   "u", "n", "k", "n", "o", "w", "n", " ", "f", "i", "l", "e">>

----------------------------------------------------------------------------
(* C21 *)

\* the intent completion was answered with an empty or blank text
BlankIntent ==
    /\ entry = "get_answer"
    /\ calls # <<>>
    /\ calls[1].ok
    /\ AllSpace(calls[1].reply)

\* C21: when the intent completion is empty or blank, identify_intents returns
\* no intent and the run issues no keyword completion, no embedding call and no
\* similarity query; it still issues the synthesis completion, with an empty
\* context, and a run that succeeds returns the answer of that completion
\* together with an empty intent_data mapping.
C21_NoIntentRun ==
    BlankIntent =>
        /\ intents = <<>>
        /\ \A i \in DOMAIN calls :
              /\ calls[i].svc = "completion"
              /\ calls[i].stage \in {"identify_intents", "generate_multi_intent_answer"}
        /\ IsPrefix(Stages, <<"identify_intents", "generate_multi_intent_answer">>)
        /\ intent_keywords = <<>> /\ intent_data = <<>>
        /\ context = <<>> /\ truncated_context = <<>>
        /\ pc = "returned" => Len(calls) = 2
        /\ Succeeded =>
              /\ calls[2].ok
              /\ result.response = markdown(strip(calls[2].reply))
              /\ result.intent_data = <<>>

\* a blank intent completion: the run returned the synthesized answer after
\* two calls
C21_Witness ==
    /\ BlankIntent
    /\ calls[1].reply = <<" ">>
    /\ Succeeded
    /\ Stages = <<"identify_intents", "generate_multi_intent_answer">>
    /\ calls[2].reply = <<"a", " ">>
    /\ result = [response |-> <<"<p>", "a", "</p>">>, intent_data |-> <<>>]

----------------------------------------------------------------------------
(* C22 *)

\* the ids kept for the intents before intent i
KeptBefore(data, i) == UNION {Kept(data, p) : p \in 1..(i - 1)}

\* the matches of reply whose id is not among ids, in the order of reply
Without(reply, ids) == SelectSeq(reply, LAMBDA match : match.id \notin ids)

\* C22: the metadata_results of an intent are the matches of the metadata
\* index's answer for that intent whose id was not kept for an earlier intent,
\* in the order of the answer: nothing is added, reordered or dropped
\* otherwise, and they are never more than the answer holds; the same is true
\* of the matches of the intent in hand before its entry is stored.
C22_KeptSubsequence ==
    entry \in {"get_answer", "query_for_multiple_intents"} =>
        /\ \A i \in DOMAIN intent_data :
              /\ intent_data[i].val.metadata_results =
                     Without(MetadataReplies[i].reply, KeptBefore(intent_data, i))
              /\ Len(intent_data[i].val.metadata_results) <= Len(MetadataReplies[i].reply)
        /\ Len(MetadataReplies) \in {Len(intent_data), Len(intent_data) + 1}
        /\ Len(MetadataReplies) = Len(intent_data) + 1 =>
              new_metadata_results =
                  Without(MetadataReplies[Len(MetadataReplies)].reply,
                          KeptBefore(intent_data, Len(intent_data) + 1))

\* the index answered the second intent with a new vector followed by the one
\* kept for the first: the second intent kept the new one only
C22_Witness ==
    /\ entry = "query_for_multiple_intents"
    /\ pc = "returned"
    /\ Len(intent_data) = 2
    /\ [m \in DOMAIN MetadataReplies[1].reply |-> MetadataReplies[1].reply[m].id] = <<"1">>
    /\ [m \in DOMAIN MetadataReplies[2].reply |-> MetadataReplies[2].reply[m].id] = <<"2", "1">>
    /\ MatchIds(intent_data) = <<"1", "2">>

\* two new matches are kept in the order of the answer
KeptInOrder ==
    /\ entry = "query_for_multiple_intents"
    /\ pc = "returned"
    /\ intent_data # <<>>
    /\ [m \in DOMAIN MetadataReplies[1].reply |-> MetadataReplies[1].reply[m].id] = <<"2", "1">>
    /\ MatchIds(<<intent_data[1]>>) = <<"2", "1">>

====
